---- MODULE Spec2Model ----
(***************************************************************************)
(* The file-hash view of src/src/pages/file-hash.vue: two reactive fields  *)
(* (filePath, hashResult), the async handler selectFile and the async      *)
(* function calculateHash it awaits. Every await is a suspension point:    *)
(* the code between two awaits runs as one atomic step of the UI thread.   *)
(***************************************************************************)
EXTENDS Integers, Sequences, FiniteSets, TLC

\* ---- bounds ----
MaxClicks == 2
MaxDirect == 1

\* ---- the values the environment (picker, backend) can hand to the view ----
Paths == {"/tmp/a.txt", "/tmp/b.txt"}
Digests == {"e3b0c4", "9f86d0"}

\* what `await open(...)` resolves to: a path string (possibly empty) or null
NullSel == [kind |-> "null", v |-> ""]
NoSel == [kind |-> "none", v |-> ""]
ErrSel == [kind |-> "error", v |-> ""]
PickerResults == {[kind |-> "path", v |-> p] : p \in Paths \cup {""}} \cup {NullSel}

\* what a rejected promise carries: a string, or an Error object with a message
NoError == [kind |-> "none", v |-> ""]
Errors == {[kind |-> "string", v |-> "file not found"], [kind |-> "Error", v |-> "boom"]}

VARIABLES filePath, hashResult, calls, requests, notifications, direct

vars == <<filePath, hashResult, calls, requests, notifications, direct>>

\* String(error): a string is kept, an Error object renders as "Error: <message>"
JsString(e) ==
  IF e.kind = "string" THEN e.v ELSE "Error: " \o e.v

\* !selected : null and the empty string are falsy
FalsyNullOnly(sel) ==
  sel.kind = "null"

Falsy(sel) ==
  sel.kind = "null" \/ sel.v = ""

\* ids of the backend requests that have been issued and not yet answered
InFlight ==
  {r \in DOMAIN requests : requests[r].status = "pending"}

\* invoke('calculate_file_hash', { filePath }) : the request leaves, the promise is pending
NewRequest(fp, by) ==
  [path |-> fp, by |-> by, status |-> "pending", digest |-> "", error |-> NoError,
   overlaps |-> InFlight]

Issued(fp, by) ==
  Append([q \in DOMAIN requests |->
            IF requests[q].status = "pending"
              THEN [requests[q] EXCEPT !.overlaps = @ \cup {Len(requests) + 1}]
              ELSE requests[q]],
         NewRequest(fp, by))

\* calculateHash up to its await, entered with filePath.value = fp
calculateHashNoGuard(fp, by) ==
  /\ hashResult' = ""
  /\ requests' = Issued(fp, by)

calculateHashNoClear(fp, by) ==
  IF fp = ""
    THEN UNCHANGED <<hashResult, requests>>
    ELSE /\ UNCHANGED hashResult
         /\ requests' = Issued(fp, by)

calculateHash(fp, by) ==
  IF fp = ""
    THEN UNCHANGED <<hashResult, requests>>
    ELSE /\ hashResult' = ""
         /\ requests' = Issued(fp, by)

Init ==
  /\ filePath = ""
  /\ hashResult = ""
  /\ calls = << >>
  /\ requests = << >>
  /\ notifications = << >>
  /\ direct = << >>

\* @click="selectFile": the handler runs up to `await open(...)`
selectFile ==
  /\ Len(calls) + Len(direct) < MaxClicks
  /\ calls' = Append(calls, [pc |-> "open", selected |-> NoSel, req |-> 0])
  /\ UNCHANGED <<filePath, hashResult, requests, notifications, direct>>

\* the statements of selectFile after a truthy selection
selectFileHashFirst(i, sel) ==
  /\ calculateHash(filePath, i)
  /\ filePath' = sel.v
  /\ calls' = [calls EXCEPT ![i] =
                 IF Len(requests') > Len(requests)
                   THEN [pc |-> "invoke", selected |-> sel, req |-> Len(requests')]
                   ELSE [pc |-> "done", selected |-> sel, req |-> 0]]

selectFileSelected(i, sel) ==
  /\ filePath' = sel.v
  /\ calculateHash(sel.v, i)
  /\ calls' = [calls EXCEPT ![i] =
                 IF Len(requests') > Len(requests)
                   THEN [pc |-> "invoke", selected |-> sel, req |-> Len(requests')]
                   ELSE [pc |-> "done", selected |-> sel, req |-> 0]]

\* the picker promise resolves: selectFile continues after `await open(...)`
OpenResolved(i, sel) ==
  /\ calls[i].pc = "open"
  /\ IF Falsy(sel)
       THEN /\ calls' = [calls EXCEPT ![i] = [pc |-> "done", selected |-> sel, req |-> 0]]
            /\ UNCHANGED <<filePath, hashResult, requests>>
       ELSE selectFileSelected(i, sel)
  /\ UNCHANGED <<notifications, direct>>

\* the picker promise rejects: the empty catch block of selectFile
OpenRejectedNotify(i, e) ==
  /\ calls[i].pc = "open"
  /\ calls' = [calls EXCEPT ![i] = [pc |-> "done", selected |-> ErrSel, req |-> 0]]
  /\ notifications' = Append(notifications,
       [message |-> JsString(e), type |-> "error", req |-> 0])
  /\ UNCHANGED <<filePath, hashResult, requests, direct>>

OpenRejected(i, e) ==
  /\ calls[i].pc = "open"
  /\ calls' = [calls EXCEPT ![i] = [pc |-> "done", selected |-> ErrSel, req |-> 0]]
  /\ UNCHANGED <<filePath, hashResult, requests, notifications, direct>>

\* the caller of request r, if it is a selectFile, returns
Returned(r) ==
  IF requests[r].by = 0
    THEN calls
    ELSE [calls EXCEPT ![requests[r].by].pc = "done"]

\* the invoke promise resolves with digest d: hashResult.value = result as string
InvokeResolvedIfCurrent(r, d) ==
  /\ requests[r].status = "pending"
  /\ hashResult' = IF r = Len(requests) THEN d ELSE hashResult
  /\ requests' = [requests EXCEPT ![r].status = "ok", ![r].digest = d]
  /\ calls' = Returned(r)
  /\ UNCHANGED <<filePath, notifications, direct>>

InvokeResolved(r, d) ==
  /\ requests[r].status = "pending"
  /\ hashResult' = d
  /\ requests' = [requests EXCEPT ![r].status = "ok", ![r].digest = d]
  /\ calls' = Returned(r)
  /\ UNCHANGED <<filePath, notifications, direct>>

\* the invoke promise rejects with e: the catch block of calculateHash
\* (the fixed title text of the notification is left out)
Notification(r, e) ==
  [message |-> JsString(e), type |-> "error", req |-> r]

InvokeRejectedRetry(r, e) ==
  /\ requests[r].status = "pending"
  /\ notifications' = Append(notifications, Notification(r, e))
  /\ requests' = Append([requests EXCEPT ![r].status = "err", ![r].error = e],
                        [NewRequest(requests[r].path, 0) EXCEPT !.overlaps = InFlight \ {r}])
  /\ calls' = Returned(r)
  /\ UNCHANGED <<filePath, hashResult, direct>>

InvokeRejected(r, e) ==
  /\ requests[r].status = "pending"
  /\ notifications' = Append(notifications, Notification(r, e))
  /\ requests' = [requests EXCEPT ![r].status = "err", ![r].error = e]
  /\ calls' = Returned(r)
  /\ UNCHANGED <<filePath, hashResult, direct>>

\* calculateHash called on its own, with whatever filePath holds
calculateHashDirect ==
  /\ Len(direct) < MaxDirect
  /\ Len(calls) + Len(direct) < MaxClicks
  /\ calculateHash(filePath, 0)
  /\ direct' = Append(direct, [fp |-> filePath])
  /\ UNCHANGED <<filePath, calls, notifications>>

Next ==
  \/ selectFile
  \/ \E i \in DOMAIN calls, sel \in PickerResults : OpenResolved(i, sel)
  \/ \E i \in DOMAIN calls, e \in Errors : OpenRejected(i, e)
  \/ \E r \in DOMAIN requests, d \in Digests : InvokeResolved(r, d)
  \/ \E r \in DOMAIN requests, e \in Errors : InvokeRejected(r, e)

NextDirect ==
  \/ Next
  \/ calculateHashDirect

Spec == Init /\ [][Next]_vars

SpecDirect == Init /\ [][NextDirect]_vars

TypeOK ==
  /\ filePath \in Paths \cup {""}
  /\ hashResult \in Digests \cup {""}
  /\ Len(calls) + Len(direct) <= MaxClicks
  /\ \A r \in DOMAIN requests : requests[r].path \in Paths
  /\ \A i \in DOMAIN calls : calls[i].pc \in {"open", "invoke", "done"}

\* ---- helpers of the properties ----
\* the picker of call i returned a non-empty path
Selected(i) ==
  calls[i].selected.kind = "path" /\ calls[i].selected.v # ""

\* the picker of call i returned no selection (null or the empty string)
Cancelled(i) ==
  calls[i].selected.kind = "null" \/ (calls[i].selected.kind = "path" /\ calls[i].selected.v = "")

\* request r is answered by this step
Answered(r) ==
  requests[r].status = "pending" /\ requests'[r].status # "pending"

NotificationsOf(r) ==
  {k \in DOMAIN notifications : notifications[k].req = r}

Later(r, q) ==
  IF r > q THEN r ELSE q

\* C1: whenever hashResult is non-empty it is the digest the backend returned
\* for a request issued with the current filePath, never the digest of an
\* earlier path.
C1_HashResultIsOfCurrentPath ==
  hashResult # "" =>
    \E r \in DOMAIN requests :
      /\ requests[r].path = filePath
      /\ requests[r].status = "ok"
      /\ requests[r].digest = hashResult

\* C2: when the digest request of a selectFile that selected P is answered
\* with digest D, and no other request was in flight while it was, then the
\* request was the one for P and, at the completion of that selectFile,
\* filePath is exactly P and hashResult exactly D.
C2_SelectionShowsPathAndDigest ==
  [][\A r \in DOMAIN requests :
       (/\ Answered(r)
        /\ requests'[r].status = "ok"
        /\ requests'[r].overlaps = {}
        /\ requests[r].by # 0)
       => /\ calls'[requests[r].by].pc = "done"
          /\ requests[r].path = calls[requests[r].by].selected.v
          /\ filePath' = calls[requests[r].by].selected.v
          /\ hashResult' = requests'[r].digest]_vars

C2_Witness ==
  \E i \in DOMAIN calls :
    /\ calls[i].pc = "done"
    /\ Selected(i)
    /\ requests[calls[i].req].status = "ok"
    /\ requests[calls[i].req].overlaps = {}
    /\ filePath = calls[i].selected.v
    /\ hashResult = requests[calls[i].req].digest
    /\ hashResult \in Digests

\* C3: when the latest digest request, issued after selecting P, fails with
\* error E, then once the failure is handled hashResult is empty, filePath is
\* still P and exactly one notification was raised for that request, with
\* message String(E), whatever requests were issued earlier.
C3_FailureLeavesResultEmpty ==
  [][\A r \in DOMAIN requests :
       (/\ Answered(r)
        /\ requests'[r].status = "err"
        /\ r = Len(requests))
       => /\ hashResult' = ""
          /\ filePath' = requests[r].path
          /\ \E k \in DOMAIN notifications' :
               /\ notifications'[k].req = r
               /\ notifications'[k].message = JsString(requests'[r].error)
               /\ \A j \in DOMAIN notifications' : notifications'[j].req = r => j = k]_vars

\* C4: when the picker returns no selection (null or empty), filePath and
\* hashResult keep their values, no request is issued, no notification shown.
C4_CancelChangesNothing ==
  [][\A i \in DOMAIN calls :
       (calls[i].pc = "open" /\ calls'[i].pc # "open" /\ Cancelled(i)')
       => /\ calls'[i].pc = "done"
          /\ UNCHANGED <<filePath, hashResult, requests, notifications>>]_vars

C4_Witness ==
  \E i \in DOMAIN calls :
    /\ calls[i].pc = "done"
    /\ calls[i].selected = [kind |-> "path", v |-> ""]
    /\ filePath # ""
    /\ hashResult # ""

\* C5: calculateHash invoked while filePath is empty issues no backend call,
\* raises no notification and leaves hashResult and filePath unchanged.
C5_EmptyPathIsNoOp ==
  [][(Len(direct') > Len(direct) /\ filePath = "")
       => UNCHANGED <<filePath, hashResult, requests, notifications>>]_vars

C5_Witness ==
  \E k \in DOMAIN direct : direct[k].fp = "" /\ requests = << >>

\* C6: for a request started only after the previous one completed
\* successfully, hashResult is empty from its start until its response, and a
\* successful response leaves exactly its digest in hashResult.
C6_SequentialNoResidue ==
  [][\A r \in DOMAIN requests :
       (/\ r > 1
        /\ requests[r].status = "pending"
        /\ requests[r].overlaps = {}
        /\ requests[r - 1].status = "ok")
       => /\ hashResult = ""
          /\ (requests'[r].status = "ok" => hashResult' = requests'[r].digest)]_vars

C6_Witness ==
  /\ Len(requests) = 2
  /\ requests[1].status = "ok"
  /\ requests[2].status = "ok"
  /\ requests[2].overlaps = {}
  /\ requests[1].digest # requests[2].digest
  /\ hashResult = requests[2].digest

\* C7: when the picker call fails, selectFile completes and filePath,
\* hashResult, the requests and the notifications are unchanged.
C7_PickerFailureIsSwallowed ==
  [][\A i \in DOMAIN calls :
       (calls[i].pc = "open" /\ calls'[i].selected.kind = "error")
       => /\ calls'[i].pc = "done"
          /\ UNCHANGED <<filePath, hashResult, requests, notifications>>]_vars

C7_Witness ==
  \E i \in DOMAIN calls :
    /\ calls[i].pc = "done"
    /\ calls[i].selected.kind = "error"
    /\ filePath # ""
    /\ notifications = << >>

\* C8: while the request for the current filePath is issued and not yet
\* answered, hashResult is empty.
C8_NoStaleDigestWhilePending ==
  (requests # << >> /\ requests[Len(requests)].status = "pending") => hashResult = ""

\* C9: when two requests were in flight at the same time and both succeed,
\* then after the second response hashResult is the digest of the response
\* delivered last, and filePath is the path of the later of the two selections
\* (no selection having followed them).
C9_LastResponseWins ==
  [][\A r \in DOMAIN requests : \A q \in requests[r].overlaps :
       (/\ Answered(r)
        /\ requests'[r].status = "ok"
        /\ requests[q].status = "ok")
       => /\ hashResult' = requests'[r].digest
          /\ (Later(r, q) = Len(requests) => filePath' = requests[Later(r, q)].path)]_vars

C9_Witness ==
  /\ Len(requests) = 2
  /\ requests[1].status = "ok"
  /\ requests[2].status = "ok"
  /\ 2 \in requests[1].overlaps
  /\ requests[1].digest # requests[2].digest
  /\ requests[1].path # requests[2].path
  /\ hashResult = requests[1].digest
  /\ filePath = requests[2].path

\* C10: the number of requests issued equals the number of picker results with
\* a non-empty path; each request carries exactly the selected path, the latest
\* one the current filePath; a failed request is not issued again.
C10_OneSelectionOneRequest ==
  /\ Len(requests) = Cardinality({i \in DOMAIN calls : Selected(i)})
  /\ \A i \in DOMAIN calls :
       Selected(i) =>
         /\ calls[i].req \in DOMAIN requests
         /\ requests[calls[i].req].by = i
         /\ requests[calls[i].req].path = calls[i].selected.v
  /\ \A r \in DOMAIN requests : requests[r].by \in DOMAIN calls /\ calls[requests[r].by].req = r
  /\ IF requests = << >> THEN filePath = "" ELSE filePath = requests[Len(requests)].path

C10_Witness ==
  /\ Len(requests) = 2
  /\ requests[1].status = "err"
  /\ requests[2].status = "err"
  /\ \A i \in DOMAIN calls : calls[i].pc = "done"
====
